---- MODULE Spec2Model ----
(***************************************************************************)
(* A model of vitals (src/vitals.go): the per-target goroutine of main     *)
(* (status-range parsing, the default-to-200 rule), processTarget (fan-out *)
(* of one goroutine per (base URL, endpoint) pair behind an optional       *)
(* semaphore, fan-in through a buffered channel) and checkEndpoint.        *)
(*                                                                         *)
(* Strings are sequences of one-character strings so that the code's       *)
(* indexing (endpoint[0], baseURL[len(baseURL)-1]) and fmt.Sscanf can be   *)
(* computed.  In URLs the token "h" abbreviates a scheme and authority     *)
(* such as "http://host".                                                  *)
(***************************************************************************)
EXTENDS Integers, Sequences, FiniteSets, TLC

VARIABLES
    config,        \* the TargetConfig as loaded from the file (never written)
    concurrency,   \* flags.concurrency
    target,        \* the target goroutine's by-value copy of the TargetConfig
    statusRanges,  \* main: var statusRanges []StatusRange
    rangeIdx,      \* main: position of the range-parsing loop (1-based)
    warnings,      \* range strings reported on stderr as unparsable
    tpc,           \* position of the target goroutine
    semLen,        \* number of tokens held in the channel sem
    resultsCount,  \* processTarget: resultsCount
    resultsChan,   \* processTarget: contents of the buffered channel
    results,       \* processTarget: the slice being collected
    wpc,           \* position of each worker goroutine, by job <<i, j>>
    wlocal,        \* checkEndpoint: the result under construction, by job
    crashed        \* an unrecovered panic ended the process

\* the state of one target's goroutine, its processTarget call and workers
coreVars == <<config, concurrency, target, statusRanges, rangeIdx, warnings,
              tpc, semLen, resultsCount, resultsChan, results, wpc, wlocal,
              crashed>>

VARIABLES
    aggResults,    \* printResults, printJSONResults: the parameter results
    jsonSummary,   \* printJSONResults: the JSONSummary returned
    tableSummary,  \* printResults: the summary row printed
    cfgTimeout,    \* config.Global.Timeout
    flagTimeout,   \* flags.timeout
    client         \* the *http.Client of a config file's goroutine

\* the state of the output functions
aggVars == <<aggResults, jsonSummary, tableSummary>>

\* the state of setupHTTPClient
clientVars == <<cfgTimeout, flagTimeout, client>>

VARIABLES
    mTargets,       \* main: each target goroutine's copy of its TargetConfig
    mConcurrency,   \* main: flags.concurrency
    mStatusRanges,  \* main: statusRanges of each target goroutine
    mTpc,           \* main: position of each target goroutine
    mSemLen,        \* main: number of tokens held in the one channel sem
    mResultsChan,   \* the channel resultsChan of each processTarget call
    mResults,       \* the slice results of each processTarget call
    mWpc,           \* position of each worker, by <<target name, i, j>>
    mWlocal,        \* checkEndpoint: the result under construction, by job
    mCrashed,       \* an unrecovered panic ended the process
    mRequests       \* how many times client.Do was called for each job

VARIABLES
    mSource,        \* configName and targetName of each target goroutine
    mCollect,       \* main: collectResults (JSON or HTML output requested)
    mJSONTargets,   \* main: the map jsonOutput.Targets
    mTableResults,  \* main: the map tableResults
    mStoreOrder,    \* the keys in the order in which the maps were written
    mPrinted,       \* the keys of the blocks printed, in printing order
    mMain           \* position of main

\* the output state of main
outVars == <<mSource, mCollect, mJSONTargets, mTableResults, mStoreOrder,
             mPrinted, mMain>>

\* the state of main and of its target goroutines, for two targets
mainVars == <<mTargets, mConcurrency, mStatusRanges, mTpc, mSemLen,
              mResultsChan, mResults, mWpc, mWlocal, mCrashed, mRequests,
              outVars>>

VARIABLES
    pWorker,       \* live progress: position of the worker of each job
    pComplete,     \* ProgressState: completion flag of each job
    pFlushed,      \* ProgressState: the job's final state has been drawn
    pLine,         \* ProgressState: what the job's terminal line shows
    pFinalWrites,  \* how often each job's line was written in final state
    pLock,         \* holder of the lock around the progress state
    pRenderer,     \* position of the renderer
    pCursor        \* the job whose line the current pass draws next

\* the state of the live progress mode
renderVars == <<pWorker, pComplete, pFlushed, pLine, pFinalWrites, pLock,
                pRenderer, pCursor>>

\* what the goroutines of a single target never write
auxVars == <<aggVars, clientVars, mainVars, renderVars>>

vars == <<coreVars, auxVars>>

(***************************************************************************)
(* Bounds and input domains                                                *)
(***************************************************************************)
MaxJobs == 4        \* at most this many (base URL, endpoint) pairs
MaxConcurrency == 2 \* flags.concurrency is at most this
MaxRanges == 3      \* at most this many status_ranges strings
MaxCodes == 2       \* at most this many status_codes

Digits == {"0", "1", "2", "3", "4", "5", "6", "7", "8", "9"}

DigitVal(c) ==
    CASE c = "0" -> 0 [] c = "1" -> 1 [] c = "2" -> 2 [] c = "3" -> 3
      [] c = "4" -> 4 [] c = "5" -> 5 [] c = "6" -> 6 [] c = "7" -> 7
      [] c = "8" -> 8 [] c = "9" -> 9

\* status_ranges strings a configuration may hold
RangeStrings ==
    { <<"2","0","0","-","2","9","9">>,      \* "200-299"
      <<"2","0","0",":","2","9","9">>,      \* "200:299"  (malformed)
      <<"a","b","c","-","d","e","f">>,      \* "abc-def"  (malformed)
      <<"3","0","0","-","2","0","0">>,      \* "300-200"  (inverted)
      <<"4","0","4","-","4","0","4">> }     \* "404-404"

\* status_codes a configuration may hold
CodeSet == {200, 404}

\* status codes a server may answer with
StatusSet == {200, 404}

\* time.Since(startTime) of a request that was sent: some positive time
Durations == {1}

\* status codes the acceptance policy is evaluated on
StatusUniverse == {0, 199, 200, 201, 299, 300, 403, 404, 405}

(***************************************************************************)
(* Status policy: parseStatusRange and isStatusAcceptable                  *)
(***************************************************************************)
RECURSIVE ScanDigits(_, _, _, _)
\* fmt: the digits of a %d operand, from position i on; n counts them
ScanDigits(s, i, acc, n) ==
    IF i <= Len(s) /\ s[i] \in Digits
    THEN ScanDigits(s, i + 1, acc * 10 + DigitVal(s[i]), n + 1)
    ELSE [val |-> acc, next |-> i, count |-> n]

\* fmt: one %d operand: an optional sign, then at least one digit
ScanInt(s, i) ==
    LET signed == i <= Len(s) /\ s[i] \in {"+", "-"}
        start  == IF signed THEN i + 1 ELSE i
        d      == ScanDigits(s, start, 0, 0)
        neg    == signed /\ s[i] = "-"
    IN  [ok   |-> d.count > 0,
         val  |-> IF neg THEN 0 - d.val ELSE d.val,
         next |-> d.next]

\* fmt.Sscanf(rangeStr, "%d-%d", &min, &max): input left over after the
\* second operand is ignored
parseStatusRange(rangeStr) ==
    LET a == ScanInt(rangeStr, 1)
    IN  IF ~a.ok THEN [err |-> TRUE, Min |-> 0, Max |-> 0]
        ELSE IF a.next > Len(rangeStr) \/ rangeStr[a.next] # "-"
        THEN [err |-> TRUE, Min |-> 0, Max |-> 0]
        ELSE LET b == ScanInt(rangeStr, a.next + 1)
             IN  IF ~b.ok THEN [err |-> TRUE, Min |-> 0, Max |-> 0]
                 ELSE [err |-> FALSE, Min |-> a.val, Max |-> b.val]

StatusRange(r) == [Min |-> r.Min, Max |-> r.Max]

RECURSIVE Contains(_, _)
\* slices.Contains(codes, status)
Contains(codes, status) ==
    IF codes = <<>> THEN FALSE
    ELSE IF Head(codes) = status THEN TRUE
    ELSE Contains(Tail(codes), status)

\* the off-by-one slip: the lower end of a range excluded
InRange_m(status, r) == status > r.Min /\ status <= r.Max

\* the test of one range in the loop of isStatusAcceptable
InRange(status, r) == status >= r.Min /\ status <= r.Max

RECURSIVE InAnyRange(_, _)
\* for _, r := range ranges { if ... { return true } }
InAnyRange(status, ranges) ==
    IF ranges = <<>> THEN FALSE
    ELSE IF InRange(status, Head(ranges)) THEN TRUE
    ELSE InAnyRange(status, Tail(ranges))

isStatusAcceptable(status, codes, ranges) ==
    IF Contains(codes, status) THEN TRUE ELSE InAnyRange(status, ranges)

(***************************************************************************)
(* URLs and requests                                                       *)
(***************************************************************************)
\* constructURL panics (index out of range) when it indexes the last byte
\* of an empty base URL
constructURLPanics(baseURL, endpoint) ==
    /\ endpoint # <<>>
    /\ endpoint[1] # "/"
    /\ baseURL = <<>>

\* constructURL where it does not panic
constructURL(baseURL, endpoint) ==
    IF endpoint = <<>> THEN baseURL
    ELSE IF endpoint[1] # "/" /\ baseURL[Len(baseURL)] # "/"
    THEN baseURL \o <<"/">> \o endpoint
    ELSE baseURL \o endpoint

HexDigits == Digits \cup {"a", "b", "c", "d", "e", "f"}

\* http.NewRequest fails when the URL does not parse; of the ways a URL can
\* fail to parse the model has the invalid escape: a "%" that is not
\* followed by two hexadecimal digits
NewRequestFails(url) ==
    \E i \in 1..Len(url) :
        /\ url[i] = "%"
        /\ \/ i + 2 > Len(url)
           \/ url[i + 1] \notin HexDigits
           \/ url[i + 2] \notin HexDigits

NoError == "nil"
ErrCreatingRequest == "error creating request"
ErrTransport == "transport error"
ErrReadingBody == "error reading response body"

\* the errors a result can carry: nil, or one of three kinds told apart by
\* their message
Errors == {NoError, ErrCreatingRequest, ErrTransport, ErrReadingBody}

\* result := EndpointResult{URL: url}
EndpointResult(url) ==
    [URL |-> url, StatusCode |-> 0, ResponseBody |-> "", Error |-> NoError,
     Duration |-> 0, Success |-> FALSE]

\* a construction failure that records a measured duration
CreateErrorResult_m(r) == [r EXCEPT !.Error = ErrCreatingRequest, !.Duration = 1]

\* checkEndpoint, NewRequest failed: result.Error = "error creating request"
CreateErrorResult(r) == [r EXCEPT !.Error = ErrCreatingRequest]

\* checkEndpoint, client.Do failed: result.Error = err, Duration measured
TransportErrorResult(r, d) == [r EXCEPT !.Error = ErrTransport, !.Duration = d]

\* a response whose duration is recorded only after the body has been read
ResponseResult_m(r, s, d) == [r EXCEPT !.StatusCode = s]

\* checkEndpoint, response received: StatusCode and Duration recorded
ResponseResult(r, s, d) == [r EXCEPT !.StatusCode = s, !.Duration = d]

\* a read failure that forgets the status code already recorded
BodyErrorResult_m(r) == [r EXCEPT !.Error = ErrReadingBody, !.StatusCode = 0]

\* checkEndpoint, io.ReadAll failed: result.Error = "error reading ..."
BodyErrorResult(r) == [r EXCEPT !.Error = ErrReadingBody]

\* a body read that reports success whatever the status is
BodyReadResult_m(r, codes, ranges) ==
    [r EXCEPT !.ResponseBody = "body", !.Success = TRUE]

\* checkEndpoint, body read: ResponseBody and Success set; the body's
\* content is not inspected by the program and is one token here
BodyReadResult(r, codes, ranges) ==
    [r EXCEPT !.ResponseBody = "body",
              !.Success = isStatusAcceptable(r.StatusCode, codes, ranges)]

(***************************************************************************)
(* Configurations                                                          *)
(***************************************************************************)
SeqsUpTo(S, n) == UNION { [1..k -> S] : k \in 0..n }

Elems(l) == { l[i] : i \in DOMAIN l }

RECURSIVE SubLists(_)
\* the lists obtained from l by dropping elements
SubLists(l) ==
    IF l = <<>> THEN {<<>>}
    ELSE LET rest == SubLists(Tail(l))
         IN  rest \cup { <<Head(l)>> \o x : x \in rest }

\* base_urls and endpoints of the targets with several jobs, in file order
BaseURLPool == << <<>>, <<"h">>, <<"h", "/">> >>
EndpointPool == << <<"a">>, <<"/", "a">>, <<"%">> >>

\* base_urls and endpoints of the targets with one job
BaseURLSet == Elems(BaseURLPool)
EndpointSet == Elems(EndpointPool) \cup { <<>>, <<"%", "6", "1">>, <<"%", "6">> }

\* targets with every job list within the bounds, and either no status
\* policy or the one range "404-404"
DispatchConfigs ==
    { c \in [BaseURLs : SubLists(BaseURLPool),
             Endpoints : SubLists(EndpointPool),
             StatusCodes : {<<>>},
             StatusRanges : {<<>>, << <<"4","0","4","-","4","0","4">> >>}] :
        Len(c.BaseURLs) * Len(c.Endpoints) <= MaxJobs }

\* targets with one job: every status policy within the bounds, or every
\* base URL and endpoint
OneJobConfigs ==
    [BaseURLs : {<< <<"h">> >>}, Endpoints : {<< <<"/", "a">> >>},
     StatusCodes : SeqsUpTo(CodeSet, MaxCodes),
     StatusRanges : SeqsUpTo(RangeStrings, MaxRanges)]
    \cup
    [BaseURLs : { <<b>> : b \in BaseURLSet },
     Endpoints : { <<e>> : e \in EndpointSet },
     StatusCodes : {<<>>}, StatusRanges : {<<>>}]

Jobs(t) == (1..Len(t.BaseURLs)) \X (1..Len(t.Endpoints))

\* processTarget: resultsCount := len(target.BaseURLs) * len(target.Endpoints)
ResultsCount_m(t) == Len(t.BaseURLs)

ResultsCount(t) == Len(t.BaseURLs) * Len(t.Endpoints)

\* a nil check that is always taken
SemInUse_m == TRUE

\* sem != nil (main creates the semaphore only when flags.concurrency > 0)
SemInUse == concurrency > 0

\* the state in which the goroutine of a target starts
Start(c, n) ==
    /\ config = c
    /\ concurrency = n
    /\ target = c
    /\ statusRanges = <<>>
    /\ rangeIdx = 1
    /\ warnings = <<>>
    /\ tpc = "parse"
    /\ semLen = 0
    /\ resultsCount = 0
    /\ resultsChan = <<>>
    /\ results = <<>>
    /\ wpc = <<>>
    /\ wlocal = <<>>
    /\ crashed = FALSE

\* a target with no jobs, for the runs in which no target is processed
NoTarget ==
    [BaseURLs |-> <<>>, Endpoints |-> <<>>, StatusCodes |-> <<>>,
     StatusRanges |-> <<>>]

\* the two target goroutines of main
TargetNames == {"t1", "t2"}

\* the target goroutines of main before they run, for the targets ts
MainStart(ts, n) ==
    /\ mTargets = ts
    /\ mConcurrency = n
    /\ mStatusRanges = [t \in TargetNames |-> <<>>]
    /\ mTpc = [t \in TargetNames |-> "start"]
    /\ mSemLen = 0
    /\ mResultsChan = [t \in TargetNames |-> <<>>]
    /\ mResults = [t \in TargetNames |-> <<>>]
    /\ mWpc = <<>>
    /\ mWlocal = <<>>
    /\ mCrashed = FALSE
    /\ mRequests = <<>>

\* main before its target goroutines have finished: the goroutines' config
\* files and target names are src, collectResults is collect, the maps are
\* empty and nothing is printed
OutStart(src, collect) ==
    /\ mSource = src
    /\ mCollect = collect
    /\ mJSONTargets = <<>>
    /\ mTableResults = <<>>
    /\ mStoreOrder = <<>>
    /\ mPrinted = <<>>
    /\ mMain = "waiting"

\* the file "a" with the targets "d" (goroutine t1) and "c" (goroutine t2)
OneFileSource ==
    [t \in TargetNames |->
        [Config |-> 1, Filename |-> <<"a">>,
         Name |-> IF t = "t1" THEN <<"d">> ELSE <<"c">>]]

\* no target is processed by main
MainIdle ==
    /\ MainStart([t \in TargetNames |-> NoTarget], 0)
    /\ OutStart(OneFileSource, FALSE)

\* the live progress mode before dispatch, for a target with n jobs: one
\* placeholder line has been printed per job
RenderStart(n) ==
    /\ pWorker = [j \in 1..n |-> "running"]
    /\ pComplete = [j \in 1..n |-> FALSE]
    /\ pFlushed = [j \in 1..n |-> FALSE]
    /\ pLine = [j \in 1..n |-> "spinner"]
    /\ pFinalWrites = [j \in 1..n |-> 0]
    /\ pLock = <<>>
    /\ pRenderer = "idle"
    /\ pCursor = 1

\* the live progress mode is not used
RenderIdle == RenderStart(0)

\* no summary computed yet
NoSummary == [Computed |-> FALSE]

\* no output function has been called
AggIdle ==
    /\ aggResults = <<>>
    /\ jsonSummary = NoSummary
    /\ tableSummary = NoSummary

\* no client constructed yet (a nil *http.Client)
NoClient == [Set |-> FALSE, Timeout |-> 0]

\* setupHTTPClient not called, no timeout configured
ClientIdle ==
    /\ cfgTimeout = 0
    /\ flagTimeout = 0
    /\ client = NoClient

Init ==
    /\ \E c \in DispatchConfigs, n \in 0..MaxConcurrency : Start(c, n)
    /\ AggIdle
    /\ ClientIdle
    /\ MainIdle
    /\ RenderIdle

InitOneJob ==
    /\ \E c \in OneJobConfigs, n \in {0, 1} : Start(c, n)
    /\ AggIdle
    /\ ClientIdle
    /\ MainIdle
    /\ RenderIdle

(***************************************************************************)
(* The target goroutine of main                                            *)
(***************************************************************************)
\* a parse error that ends the loop instead of skipping the string
AfterRange_m(err) ==
    IF err THEN Len(target.StatusRanges) + 1 ELSE rangeIdx + 1

\* the loop goes on to the next range string, after an error (continue) as
\* after an append
AfterRange(err) == rangeIdx + 1

\* one iteration of: for _, rangeStr := range target.StatusRanges
ParseRange ==
    /\ ~crashed
    /\ tpc = "parse"
    /\ rangeIdx <= Len(target.StatusRanges)
    /\ LET rangeStr == target.StatusRanges[rangeIdx]
           r == parseStatusRange(rangeStr)
       IN  /\ IF r.err
              THEN /\ warnings' = Append(warnings, rangeStr)
                   /\ UNCHANGED statusRanges
              ELSE /\ statusRanges' = Append(statusRanges, StatusRange(r))
                   /\ UNCHANGED warnings
           /\ rangeIdx' = AfterRange(r.err)
    /\ UNCHANGED <<config, concurrency, target, tpc, semLen, resultsCount,
                   resultsChan, results, wpc, wlocal, crashed,
                   auxVars>>

\* a default that is never applied
DefaultStatusCodes_m(codes, ranges) == codes

\* default to 200 if no status codes or ranges specified
DefaultStatusCodes(codes, ranges) ==
    IF Len(codes) = 0 /\ Len(ranges) = 0 THEN <<200>> ELSE codes

\* a default rule that looks at the configured range strings
DefaultPolicy_m ==
    /\ ~crashed
    /\ tpc = "parse"
    /\ rangeIdx > Len(target.StatusRanges)
    /\ target' = [target EXCEPT !.StatusCodes =
                     DefaultStatusCodes(target.StatusCodes, target.StatusRanges)]
    /\ tpc' = "dispatch"
    /\ UNCHANGED <<config, concurrency, statusRanges, rangeIdx, warnings,
                   semLen, resultsCount, resultsChan, results, wpc, wlocal,
                   crashed,
                   auxVars>>

\* after the loop: the default rule, on the goroutine's copy of the target
DefaultPolicy ==
    /\ ~crashed
    /\ tpc = "parse"
    /\ rangeIdx > Len(target.StatusRanges)
    /\ target' = [target EXCEPT !.StatusCodes =
                     DefaultStatusCodes(target.StatusCodes, statusRanges)]
    /\ tpc' = "dispatch"
    /\ UNCHANGED <<config, concurrency, statusRanges, rangeIdx, warnings,
                   semLen, resultsCount, resultsChan, results, wpc, wlocal,
                   crashed,
                   auxVars>>

(***************************************************************************)
(* processTarget                                                           *)
(***************************************************************************)
\* resultsCount, make(chan EndpointResult, resultsCount), and the two loops
\* that start one goroutine per (baseURL, endpoint)
Dispatch ==
    /\ ~crashed
    /\ tpc = "dispatch"
    /\ resultsCount' = ResultsCount(target)
    /\ resultsChan' = <<>>
    /\ results' = <<>>
    /\ wpc' = [j \in Jobs(target) |-> "start"]
    /\ wlocal' = [j \in Jobs(target) |-> EndpointResult(<<>>)]
    /\ tpc' = "collect"
    /\ UNCHANGED <<config, concurrency, target, statusRanges, rangeIdx,
                   warnings, semLen, crashed,
                   auxVars>>

\* results = append(results, <-resultsChan), one iteration
Collect ==
    /\ ~crashed
    /\ tpc = "collect"
    /\ Len(results) < resultsCount
    /\ resultsChan # <<>>
    /\ results' = Append(results, Head(resultsChan))
    /\ resultsChan' = Tail(resultsChan)
    /\ UNCHANGED <<config, concurrency, target, statusRanges, rangeIdx,
                   warnings, tpc, semLen, resultsCount, wpc, wlocal, crashed,
                   auxVars>>

\* a collecting loop that waits for a first result before it can end
Return_m ==
    /\ ~crashed
    /\ tpc = "collect"
    /\ results # <<>>
    /\ Len(results) >= resultsCount
    /\ tpc' = "returned"
    /\ UNCHANGED <<config, concurrency, target, statusRanges, rangeIdx,
                   warnings, semLen, resultsCount, resultsChan, results, wpc,
                   wlocal, crashed,
                   auxVars>>

\* return results
Return ==
    /\ ~crashed
    /\ tpc = "collect"
    /\ Len(results) >= resultsCount
    /\ tpc' = "returned"
    /\ UNCHANGED <<config, concurrency, target, statusRanges, rangeIdx,
                   warnings, semLen, resultsCount, resultsChan, results, wpc,
                   wlocal, crashed,
                   auxVars>>

(***************************************************************************)
(* The worker goroutines: func(baseURL, endpoint string) and checkEndpoint *)
(***************************************************************************)
\* an acquire that never waits
CanAcquire_m == TRUE

\* an acquire without the nil check: a send on the nil channel never proceeds
CanAcquire_nil == semLen < concurrency

\* sem <- struct{}{} can proceed: the channel sem is not full
CanAcquire == SemInUse => semLen < concurrency

\* a result that is dropped when it carries an error
Send_m(w, r) ==
    /\ Len(resultsChan) < resultsCount
    /\ resultsChan' = IF r.Error # NoError THEN resultsChan
                      ELSE Append(resultsChan, r)
    /\ wpc' = [wpc EXCEPT ![w] = IF SemInUse THEN "sent" ELSE "done"]
    /\ wlocal' = [wlocal EXCEPT ![w] = EndpointResult(<<>>)]

\* resultsChan <- r, after which the deferred release is all that is left
Send(w, r) ==
    /\ Len(resultsChan) < resultsCount
    /\ resultsChan' = Append(resultsChan, r)
    /\ wpc' = [wpc EXCEPT ![w] = IF SemInUse THEN "sent" ELSE "done"]
    /\ wlocal' = [wlocal EXCEPT ![w] = EndpointResult(<<>>)]

\* sem <- struct{}{} (when sem != nil), then checkEndpoint up to client.Do:
\* constructURL, which may panic, and http.NewRequest, whose failure is
\* sent as the job's result at once.  The steps after the acquire touch
\* nothing that another goroutine reads, so they are taken with it.
WorkerStart(w) ==
    /\ ~crashed
    /\ wpc[w] = "start"
    /\ CanAcquire
    /\ semLen' = IF SemInUse THEN semLen + 1 ELSE semLen
    /\ LET baseURL  == target.BaseURLs[w[1]]
           endpoint == target.Endpoints[w[2]]
       IN  IF constructURLPanics(baseURL, endpoint)
           THEN /\ crashed' = TRUE
                /\ wpc' = [wpc EXCEPT ![w] = "panicked"]
                /\ UNCHANGED <<resultsChan, wlocal>>
           ELSE LET url == constructURL(baseURL, endpoint)
                    result == EndpointResult(url)
                IN  /\ crashed' = crashed
                    /\ IF NewRequestFails(url)
                       THEN Send(w, CreateErrorResult(result))
                       ELSE /\ wpc' = [wpc EXCEPT ![w] = "inflight"]
                            /\ wlocal' = [wlocal EXCEPT ![w] = result]
                            /\ UNCHANGED resultsChan
    /\ UNCHANGED <<config, concurrency, target, statusRanges, rangeIdx,
                   warnings, tpc, resultsCount, results,
                   auxVars>>

\* client.Do(req) returns: an error, or a response whose status is recorded.
\* Which of the two happens is the network's choice for every URL, also for
\* a URL without a scheme, where the real client can only return an error.
DoReturns(w) ==
    /\ ~crashed
    /\ wpc[w] = "inflight"
    /\ \E d \in Durations :
          \/ Send(w, TransportErrorResult(wlocal[w], d))
          \/ \E s \in StatusSet :
                /\ wlocal' = [wlocal EXCEPT ![w] = ResponseResult(@, s, d)]
                /\ wpc' = [wpc EXCEPT ![w] = "reading"]
                /\ UNCHANGED resultsChan
    /\ UNCHANGED <<config, concurrency, target, statusRanges, rangeIdx,
                   warnings, tpc, semLen, resultsCount, results, crashed,
                   auxVars>>

\* io.ReadAll(resp.Body) returns: an error, or the body
ReadBody(w) ==
    /\ ~crashed
    /\ wpc[w] = "reading"
    /\ \/ Send(w, BodyErrorResult(wlocal[w]))
       \/ Send(w, BodyReadResult(wlocal[w], target.StatusCodes, statusRanges))
    /\ UNCHANGED <<config, concurrency, target, statusRanges, rangeIdx,
                   warnings, tpc, semLen, resultsCount, results, crashed,
                   auxVars>>

\* a worker that ends without giving its slot back
Release_m(w) ==
    /\ ~crashed
    /\ wpc[w] = "sent"
    /\ semLen > 0
    /\ semLen' = semLen
    /\ wpc' = [wpc EXCEPT ![w] = "done"]
    /\ UNCHANGED <<config, concurrency, target, statusRanges, rangeIdx,
                   warnings, tpc, resultsCount, resultsChan, results, wlocal,
                   crashed,
                   auxVars>>

\* defer func() { <-sem }()
Release(w) ==
    /\ ~crashed
    /\ wpc[w] = "sent"
    /\ semLen > 0
    /\ semLen' = semLen - 1
    /\ wpc' = [wpc EXCEPT ![w] = "done"]
    /\ UNCHANGED <<config, concurrency, target, statusRanges, rangeIdx,
                   warnings, tpc, resultsCount, resultsChan, results, wlocal,
                   crashed,
                   auxVars>>

Next ==
    \/ ParseRange
    \/ DefaultPolicy
    \/ Dispatch
    \/ Collect
    \/ Return
    \/ \E w \in DOMAIN wpc : WorkerStart(w)
    \/ \E w \in DOMAIN wpc : DoReturns(w)
    \/ \E w \in DOMAIN wpc : ReadBody(w)
    \/ \E w \in DOMAIN wpc : Release(w)

\* a target with up to MaxJobs jobs
Spec == Init /\ [][Next]_vars

\* a target with one job
SpecOneJob == InitOneJob /\ [][Next]_vars

\* the scheduler runs a goroutine that can run, and every request completes
\* or times out
FairSpec == Init /\ [][Next]_vars /\ WF_vars(Next)

(***************************************************************************)
(* The output functions: printResults and printJSONResults                 *)
(***************************************************************************)
MaxResults == 3   \* a result set has at most this many results
MaxDuration == 2  \* a measured duration is at most this many nanoseconds

\* the results checkEndpoint can return for a URL, with every duration up to
\* MaxDuration: request not constructed, transport error, body not read,
\* body read with the status accepted or not
ResultSet ==
    LET r == EndpointResult(<<"h", "/", "a">>)
        answered == { ResponseResult(r, 200, d) : d \in 1..MaxDuration }
    IN  {CreateErrorResult(r)}
        \cup { TransportErrorResult(r, d) : d \in 1..MaxDuration }
        \cup { BodyErrorResult(a) : a \in answered }
        \cup { [a EXCEPT !.ResponseBody = "body", !.Success = b] :
                 a \in answered, b \in BOOLEAN }

\* successful, failed, totalDuration before the loop
ZeroTally == [successful |-> 0, failed |-> 0, totalDuration |-> 0]

\* a result with an error that is counted neither as successful nor as failed
JSONClassify_m(r) ==
    IF r.Error # NoError THEN "error"
    ELSE IF r.Success THEN "successful" ELSE "failed"

\* printJSONResults: which counter the loop increments for a result
JSONClassify(r) ==
    IF r.Error # NoError THEN "failed"
    ELSE IF r.Success THEN "successful" ELSE "failed"

RECURSIVE JSONTally(_, _, _)
\* printJSONResults: the loop over results, from position i on
JSONTally(rs, i, acc) ==
    IF i > Len(rs) THEN acc
    ELSE LET c == JSONClassify(rs[i])
         IN  JSONTally(rs, i + 1,
                 [successful |-> acc.successful + IF c = "successful" THEN 1 ELSE 0,
                  failed |-> acc.failed + IF c = "failed" THEN 1 ELSE 0,
                  totalDuration |-> acc.totalDuration + rs[i].Duration])

\* an average computed whatever the total is
JSONAvgGuard_m(total) == TRUE

\* printJSONResults: if total > 0
JSONAvgGuard(total) == total > 0

\* printJSONResults: the JSONSummary.  AvgDuration is the float64 quotient
\* totalDuration.Seconds() / float64(total), kept as the fraction it is the
\* value of; a float64 division by zero gives NaN, the fraction with Den 0;
\* var avgDuration float64 starts as 0.
printJSONResults(rs) ==
    LET t == JSONTally(rs, 1, ZeroTally)
        total == t.successful + t.failed
    IN  [Computed |-> TRUE,
         Total |-> total,
         Successful |-> t.successful,
         Failed |-> t.failed,
         AvgDuration |-> IF JSONAvgGuard(total)
                         THEN [Num |-> t.totalDuration, Den |-> total]
                         ELSE [Num |-> 0, Den |-> 1]]

\* a table that counts a result with an error neither as successful nor as
\* failed
TableClassify_m(r) ==
    IF r.Error # NoError THEN "error"
    ELSE IF r.Success THEN "successful" ELSE "failed"

\* printResults: which counter the loop increments for a result
TableClassify(r) ==
    IF r.Error # NoError THEN "failed"
    ELSE IF r.Success THEN "successful" ELSE "failed"

RECURSIVE TableTally(_, _, _)
\* printResults: the loop over results, from position i on
TableTally(rs, i, acc) ==
    IF i > Len(rs) THEN acc
    ELSE LET c == TableClassify(rs[i])
         IN  TableTally(rs, i + 1,
                 [successful |-> acc.successful + IF c = "successful" THEN 1 ELSE 0,
                  failed |-> acc.failed + IF c = "failed" THEN 1 ELSE 0,
                  totalDuration |-> acc.totalDuration + rs[i].Duration])

\* printResults: if total > 0
TableSummaryGuard(total) == total > 0

\* printResults: the summary row.  It is printed only when total > 0; the
\* average is the integer division of time.Duration, which panics when the
\* divisor is 0.
printResults(rs) ==
    LET t == TableTally(rs, 1, ZeroTally)
        total == t.successful + t.failed
        divides == TableSummaryGuard(total)
    IN  [Computed |-> TRUE,
         Printed |-> divides,
         Panicked |-> divides /\ total = 0,
         Total |-> total,
         Successful |-> t.successful,
         Failed |-> t.failed,
         AvgDuration |-> IF divides /\ total # 0
                         THEN t.totalDuration \div total
                         ELSE 0]

\* main calls printJSONResults(results, ...) for a target
PrintJSONResults ==
    /\ ~jsonSummary.Computed
    /\ jsonSummary' = printJSONResults(aggResults)
    /\ UNCHANGED <<aggResults, tableSummary, coreVars, clientVars, mainVars,
                   renderVars>>

\* main calls printResults(results, ...) for a target
PrintResults ==
    /\ ~tableSummary.Computed
    /\ tableSummary' = printResults(aggResults)
    /\ UNCHANGED <<aggResults, jsonSummary, coreVars, clientVars, mainVars,
                   renderVars>>

InitAggregate ==
    /\ Start(NoTarget, 0)
    /\ ClientIdle
    /\ MainIdle
    /\ RenderIdle
    /\ aggResults \in SeqsUpTo(ResultSet, MaxResults)
    /\ jsonSummary = NoSummary
    /\ tableSummary = NoSummary

NextAggregate == PrintJSONResults \/ PrintResults

\* a result set of up to MaxResults results is aggregated for both outputs
SpecAggregate == InitAggregate /\ [][NextAggregate]_vars

(***************************************************************************)
(* setupHTTPClient                                                         *)
(***************************************************************************)
MaxTimeout == 7      \* a configured timeout is at most this many seconds
DefaultTimeout == 5  \* timeout = 5

\* the values of the timeout setting and of the --timeout flag
TimeoutValues == -1..MaxTimeout

\* a default that is applied to negative timeouts only
setupHTTPClient_m(configTimeout, cliTimeout) ==
    LET timeout == IF cliTimeout > 0 THEN cliTimeout ELSE configTimeout
    IN  IF timeout < 0 THEN DefaultTimeout ELSE timeout

\* setupHTTPClient: the Timeout of the client, in seconds
setupHTTPClient(configTimeout, cliTimeout) ==
    LET timeout == IF cliTimeout > 0 THEN cliTimeout ELSE configTimeout
    IN  IF timeout <= 0 THEN DefaultTimeout ELSE timeout

\* client := setupHTTPClient(config.Global.Timeout, flags.timeout)
SetupHTTPClient ==
    /\ ~client.Set
    /\ client' = [Set |-> TRUE,
                  Timeout |-> setupHTTPClient(cfgTimeout, flagTimeout)]
    /\ UNCHANGED <<cfgTimeout, flagTimeout, coreVars, aggVars, mainVars,
                   renderVars>>

InitClient ==
    /\ Start(NoTarget, 0)
    /\ AggIdle
    /\ MainIdle
    /\ RenderIdle
    /\ cfgTimeout \in TimeoutValues
    /\ flagTimeout \in TimeoutValues
    /\ client = NoClient

NextClient == SetupHTTPClient

\* the client of a config file is set up from the two timeouts
SpecClient == InitClient /\ [][NextClient]_vars

(***************************************************************************)
(* main: the goroutines of two targets of a config file, one semaphore     *)
(***************************************************************************)
\* config files with the targets t1 (status policy by default) and t2
\* (accepting 404 only), whose base URLs differ
MainConfigs ==
    [TargetNames ->
        [BaseURLs : {<< <<"h">> >>, << <<"g">> >>, << <<>> >>},
         Endpoints : SubLists(<< <<"/", "a">>, <<"%">>, <<"a">> >>),
         StatusCodes : {<<>>},
         StatusRanges : {<<>>, << <<"4","0","4","-","4","0","4">> >>}]]

\* the config files of the model
TwoTargetConfigs ==
    { c \in MainConfigs :
        /\ c["t1"].BaseURLs = << <<"h">> >>
        /\ c["t1"].StatusRanges = <<>>
        /\ Len(c["t1"].Endpoints) <= 2
        /\ <<"a">> \notin Elems(c["t1"].Endpoints)
        /\ c["t2"].BaseURLs # << <<"h">> >>
        /\ c["t2"].StatusRanges # <<>>
        /\ <<"%">> \notin Elems(c["t2"].Endpoints) }

\* the jobs of the target named t
MJobs(t) ==
    { <<t, i, j>> : i \in 1..Len(mTargets[t].BaseURLs),
                    j \in 1..Len(mTargets[t].Endpoints) }

RECURSIVE ParseAll(_)
\* the loop over target.StatusRanges: the ranges that parse, in order
ParseAll(rangeStrs) ==
    IF rangeStrs = <<>> THEN <<>>
    ELSE LET r == parseStatusRange(Head(rangeStrs))
         IN  IF r.err THEN ParseAll(Tail(rangeStrs))
             ELSE <<StatusRange(r)>> \o ParseAll(Tail(rangeStrs))

\* sem != nil
MSemInUse == mConcurrency > 0

\* one results channel that the workers of all targets send to
ChanOf_m(w) == "t1"

\* the processTarget call whose resultsChan the worker w has captured
ChanOf(w) == w[1]

\* the target goroutine up to the collecting loop of processTarget: the
\* status ranges, the default rule, and one goroutine started per job
TargetBegin(t) ==
    /\ ~mCrashed
    /\ mTpc[t] = "start"
    /\ LET ranges == ParseAll(mTargets[t].StatusRanges)
       IN  /\ mStatusRanges' = [mStatusRanges EXCEPT ![t] = ranges]
           /\ mTargets' = [mTargets EXCEPT ![t].StatusCodes =
                              DefaultStatusCodes(@, ranges)]
    /\ mWpc' = [w \in DOMAIN mWpc \cup MJobs(t) |->
                   IF w \in MJobs(t) THEN "start" ELSE mWpc[w]]
    /\ mWlocal' = [w \in DOMAIN mWlocal \cup MJobs(t) |->
                      IF w \in MJobs(t) THEN EndpointResult(<<>>)
                      ELSE mWlocal[w]]
    /\ mRequests' = [w \in DOMAIN mRequests \cup MJobs(t) |->
                        IF w \in MJobs(t) THEN 0 ELSE mRequests[w]]
    /\ mTpc' = [mTpc EXCEPT ![t] = "collect"]
    /\ UNCHANGED <<mConcurrency, mSemLen, mResultsChan, mResults, mCrashed,
                   coreVars, aggVars, clientVars, renderVars,
                   outVars>>

\* results = append(results, <-resultsChan), one iteration
TargetCollect(t) ==
    /\ ~mCrashed
    /\ mTpc[t] = "collect"
    /\ Len(mResults[t]) < ResultsCount(mTargets[t])
    /\ mResultsChan[t] # <<>>
    /\ mResults' = [mResults EXCEPT ![t] = Append(@, Head(mResultsChan[t]))]
    /\ mResultsChan' = [mResultsChan EXCEPT ![t] = Tail(@)]
    /\ UNCHANGED <<mTargets, mConcurrency, mStatusRanges, mTpc, mSemLen, mWpc,
                   mWlocal, mCrashed, coreVars, aggVars, clientVars, renderVars,
                   mRequests, outVars>>

\* return results
TargetReturn(t) ==
    /\ ~mCrashed
    /\ mTpc[t] = "collect"
    /\ Len(mResults[t]) >= ResultsCount(mTargets[t])
    /\ mTpc' = [mTpc EXCEPT ![t] = "returned"]
    /\ UNCHANGED <<mTargets, mConcurrency, mStatusRanges, mSemLen,
                   mResultsChan, mResults, mWpc, mWlocal, mCrashed, coreVars,
                   aggVars, clientVars, renderVars,
                   mRequests, outVars>>

\* a results channel with room for one result
ChanCap_m(t) == 1

\* resultsChan := make(chan EndpointResult, resultsCount)
ChanCap(t) == ResultsCount(mTargets[t])

\* resultsChan <- r, on the channel of the worker's processTarget call
MSend(w, r) ==
    /\ Len(mResultsChan[ChanOf(w)]) < ChanCap(ChanOf(w))
    /\ mResultsChan' = [mResultsChan EXCEPT ![ChanOf(w)] = Append(@, r)]
    /\ mWpc' = [mWpc EXCEPT ![w] = IF MSemInUse THEN "sent" ELSE "done"]
    /\ mWlocal' = [mWlocal EXCEPT ![w] = EndpointResult(<<>>)]

\* an acquire that never waits
MCanAcquire_m == TRUE

\* sem <- struct{}{} can proceed on the one sem of main
MCanAcquire == MSemInUse => mSemLen < mConcurrency

\* a worker that tries again after a transport error
MDoReturns_m(w) ==
    /\ ~mCrashed
    /\ mWpc[w] = "inflight"
    /\ \E d \in Durations :
          \/ /\ mRequests' = [mRequests EXCEPT ![w] = @ + 1]
             /\ UNCHANGED <<mWpc, mWlocal, mResultsChan>>
          \/ \E s \in StatusSet :
                /\ mWlocal' = [mWlocal EXCEPT ![w] = ResponseResult(@, s, d)]
                /\ mWpc' = [mWpc EXCEPT ![w] = "reading"]
                /\ UNCHANGED <<mResultsChan, mRequests>>
    /\ UNCHANGED <<mTargets, mConcurrency, mStatusRanges, mTpc, mSemLen,
                   mResults, mCrashed, coreVars, aggVars, clientVars,
                   renderVars, outVars>>

\* the acquire on the shared sem, constructURL and http.NewRequest; when the
\* request could be constructed, client.Do is called, once
MWorkerStart(w) ==
    /\ ~mCrashed
    /\ mWpc[w] = "start"
    /\ MCanAcquire
    /\ mSemLen' = IF MSemInUse THEN mSemLen + 1 ELSE mSemLen
    /\ LET baseURL  == mTargets[w[1]].BaseURLs[w[2]]
           endpoint == mTargets[w[1]].Endpoints[w[3]]
       IN  IF constructURLPanics(baseURL, endpoint)
           THEN /\ mCrashed' = TRUE
                /\ mWpc' = [mWpc EXCEPT ![w] = "panicked"]
                /\ UNCHANGED <<mResultsChan, mWlocal, mRequests>>
           ELSE LET url == constructURL(baseURL, endpoint)
                    result == EndpointResult(url)
                IN  /\ mCrashed' = mCrashed
                    /\ IF NewRequestFails(url)
                       THEN /\ MSend(w, CreateErrorResult(result))
                            /\ UNCHANGED mRequests
                       ELSE /\ mWpc' = [mWpc EXCEPT ![w] = "inflight"]
                            /\ mWlocal' = [mWlocal EXCEPT ![w] = result]
                            /\ mRequests' = [mRequests EXCEPT ![w] = @ + 1]
                            /\ UNCHANGED mResultsChan
    /\ UNCHANGED <<mTargets, mConcurrency, mStatusRanges, mTpc, mResults,
                   coreVars, aggVars, clientVars, renderVars,
                   outVars>>

\* client.Do(req) returns
MDoReturns(w) ==
    /\ ~mCrashed
    /\ mWpc[w] = "inflight"
    /\ \E d \in Durations :
          \/ MSend(w, TransportErrorResult(mWlocal[w], d))
          \/ \E s \in StatusSet :
                /\ mWlocal' = [mWlocal EXCEPT ![w] = ResponseResult(@, s, d)]
                /\ mWpc' = [mWpc EXCEPT ![w] = "reading"]
                /\ UNCHANGED mResultsChan
    /\ UNCHANGED <<mTargets, mConcurrency, mStatusRanges, mTpc, mSemLen,
                   mResults, mCrashed, coreVars, aggVars, clientVars, renderVars,
                   mRequests, outVars>>

\* io.ReadAll(resp.Body) returns; the status is judged by the codes and
\* ranges that the worker's own target goroutine passed to processTarget
MReadBody(w) ==
    /\ ~mCrashed
    /\ mWpc[w] = "reading"
    /\ \/ MSend(w, BodyErrorResult(mWlocal[w]))
       \/ MSend(w, BodyReadResult(mWlocal[w], mTargets[w[1]].StatusCodes,
                                  mStatusRanges[w[1]]))
    /\ UNCHANGED <<mTargets, mConcurrency, mStatusRanges, mTpc, mSemLen,
                   mResults, mCrashed, coreVars, aggVars, clientVars, renderVars,
                   mRequests, outVars>>

\* defer func() { <-sem }()
MRelease(w) ==
    /\ ~mCrashed
    /\ mWpc[w] = "sent"
    /\ mSemLen > 0
    /\ mSemLen' = mSemLen - 1
    /\ mWpc' = [mWpc EXCEPT ![w] = "done"]
    /\ UNCHANGED <<mTargets, mConcurrency, mStatusRanges, mTpc, mResultsChan,
                   mResults, mWlocal, mCrashed, coreVars, aggVars,
                   clientVars, renderVars,
                   mRequests, outVars>>

\* uniqueTargetKey := fmt.Sprintf("%s::%s", configName, targetName)
uniqueTargetKey(configName, targetName) ==
    configName \o <<":", ":">> \o targetName

\* the key of the goroutine t
KeyOf(t) == uniqueTargetKey(mSource[t].Filename, mSource[t].Name)

\* a map after m[key] = value
MapSet(m, key, value) ==
    [k \in DOMAIN m \cup {key} |-> IF k = key THEN value ELSE m[k]]

\* the goroutine of a target after processTarget: with collectResults the
\* JSONTargetResults of printJSONResults are put into jsonOutput.Targets
\* under outputMutex; in table mode the results are put into tableResults
\* under tableResultsMutex.  Each map write is one step because of its mutex.
TargetStore(t) ==
    /\ ~mCrashed
    /\ mTpc[t] = "returned"
    /\ IF mCollect
       THEN /\ mJSONTargets' =
                  MapSet(mJSONTargets, KeyOf(t),
                         [Target |-> mSource[t].Name,
                          ConfigFile |-> mSource[t].Filename,
                          Results |-> mResults[t],
                          Summary |-> printJSONResults(mResults[t])])
            /\ UNCHANGED mTableResults
       ELSE /\ mTableResults' =
                  MapSet(mTableResults, KeyOf(t),
                         [results |-> mResults[t],
                          targetName |-> mSource[t].Name,
                          configName |-> mSource[t].Filename])
            /\ UNCHANGED mJSONTargets
    /\ mStoreOrder' = Append(mStoreOrder, KeyOf(t))
    /\ mTpc' = [mTpc EXCEPT ![t] = "stored"]
    /\ UNCHANGED <<mTargets, mConcurrency, mStatusRanges, mSemLen,
                   mResultsChan, mResults, mWpc, mWlocal, mCrashed, mRequests,
                   mSource, mCollect, mPrinted, mMain, coreVars, aggVars,
                   clientVars, renderVars>>

\* the byte of a character of a file or target name
CharCode(c) ==
    CASE c = ":" -> 58
      [] c = "a" -> 97
      [] c = "b" -> 98
      [] c = "c" -> 99
      [] c = "d" -> 100

RECURSIVE StrLess(_, _)
\* a < b for Go strings: bytewise lexicographic
StrLess(a, b) ==
    IF b = <<>> THEN FALSE
    ELSE IF a = <<>> THEN TRUE
    ELSE IF Head(a) # Head(b) THEN CharCode(Head(a)) < CharCode(Head(b))
    ELSE StrLess(Tail(a), Tail(b))

\* the keys in the order in which the targets finished
SortKeys_m(keys) == mStoreOrder

RECURSIVE SortKeys(_)
\* the keys of a map collected into a slice, after slices.Sort(keys)
SortKeys(keys) ==
    IF keys = {} THEN <<>>
    ELSE LET least == CHOOSE x \in keys :
                          \A y \in keys : x = y \/ StrLess(x, y)
         IN  <<least>> \o SortKeys(keys \ {least})

\* main after wg.Wait(): in table mode one table per key of tableResults in
\* sorted order; otherwise the document made of jsonOutput, whose targets
\* encoding/json writes in sorted key order
MainOutput ==
    /\ ~mCrashed
    /\ mMain = "waiting"
    /\ \A t \in TargetNames : mTpc[t] = "stored"
    /\ mPrinted' = IF mCollect THEN SortKeys(DOMAIN mJSONTargets)
                   ELSE SortKeys(DOMAIN mTableResults)
    /\ mMain' = "done"
    /\ UNCHANGED <<mTargets, mConcurrency, mStatusRanges, mTpc, mSemLen,
                   mResultsChan, mResults, mWpc, mWlocal, mCrashed, mRequests,
                   mSource, mCollect, mJSONTargets, mTableResults,
                   mStoreOrder, coreVars, aggVars, clientVars, renderVars>>

InitMain ==
    /\ Start(NoTarget, 0)
    /\ AggIdle
    /\ ClientIdle
    /\ \E c \in TwoTargetConfigs, n \in 0..MaxConcurrency : MainStart(c, n)
    /\ OutStart(OneFileSource, FALSE)
    /\ RenderIdle

NextMain ==
    \/ \E t \in TargetNames : TargetBegin(t)
    \/ \E t \in TargetNames : TargetCollect(t)
    \/ \E t \in TargetNames : TargetReturn(t)
    \/ \E w \in DOMAIN mWpc : MWorkerStart(w)
    \/ \E w \in DOMAIN mWpc : MDoReturns(w)
    \/ \E w \in DOMAIN mWpc : MReadBody(w)
    \/ \E w \in DOMAIN mWpc : MRelease(w)
    \/ \E t \in TargetNames : TargetStore(t)
    \/ MainOutput

\* two targets of a config file are processed concurrently
SpecMain == InitMain /\ [][NextMain]_vars

\* A step of some worker goroutine of some processTarget call
MWorkerStep ==
    \E w \in DOMAIN mWpc :
        MWorkerStart(w) \/ MDoReturns(w) \/ MReadBody(w) \/ MRelease(w)

\* The same program under a scheduler that is fair to the workers: while some
\* worker goroutine can take a step, one of them eventually does.
FairSpecMain == InitMain /\ [][NextMain]_vars /\ WF_vars(MWorkerStep)

\* the paths of config files given on the command line
Filenames == { <<"a">>, <<"b">>, <<"a", ":", ":", "b">> }

\* the target names of config files
Names == { <<"c">>, <<"d">>, <<"b", ":", ":", "c">> }

\* the config files and target names of two target goroutines: targets of
\* one file have different names; a path given twice is loaded twice, with
\* the same target
Sources ==
    { src \in [TargetNames -> [Config : {1, 2}, Filename : Filenames,
                               Name : Names]] :
        /\ src["t1"].Config = 1
        /\ src["t1"].Config = src["t2"].Config =>
              /\ src["t1"].Filename = src["t2"].Filename
              /\ src["t1"].Name # src["t2"].Name
        /\ (/\ src["t1"].Config # src["t2"].Config
            /\ src["t1"].Filename = src["t2"].Filename) =>
              src["t1"].Name = src["t2"].Name }

\* targets with at most one job each
SmallConfigs ==
    { c \in TwoTargetConfigs :
        \A t \in TargetNames :
            /\ c[t].BaseURLs \in {<< <<"h">> >>, << <<"g">> >>}
            /\ c[t].Endpoints \in {<<>>, << <<"/", "a">> >>} }

InitOutput ==
    /\ Start(NoTarget, 0)
    /\ AggIdle
    /\ ClientIdle
    /\ RenderIdle
    /\ \E c \in SmallConfigs, n \in {0, 1} : MainStart(c, n)
    /\ \E src \in Sources, collect \in BOOLEAN : OutStart(src, collect)

\* the targets of one or two config files are processed and put out
SpecOutput == InitOutput /\ [][NextMain]_vars

(***************************************************************************)
(* ProgressRenderer, the live terminal mode.  Its code is not among the    *)
(* sources; the model follows section 4.4 of the specification.            *)
(***************************************************************************)
MaxLines == 4  \* a target block has at most this many job lines

\* the holders of the lock: the renderer, the worker of a job
Renderer == <<"renderer">>
WorkerOf(j) == <<"worker", j>>

\* a lock that admits a second holder
LockFree_m == TRUE

\* the lock around the progress state is not held
LockFree == pLock = <<>>

\* a renderer that stops on the completion signal without a final pass
AfterSignal_m == "stopped"

\* on the completion signal the renderer performs one final pass
AfterSignal == "signalled"

\* a worker has its result and takes the lock to record the completion
WorkerLock(j) ==
    /\ pWorker[j] = "running"
    /\ LockFree
    /\ pLock' = WorkerOf(j)
    /\ pWorker' = [pWorker EXCEPT ![j] = "writing"]
    /\ UNCHANGED <<pComplete, pFlushed, pLine, pFinalWrites, pRenderer,
                   pCursor, coreVars, aggVars, clientVars, mainVars>>

\* the worker marks its job complete and gives the lock back
WorkerComplete(j) ==
    /\ pWorker[j] = "writing"
    /\ pComplete' = [pComplete EXCEPT ![j] = TRUE]
    /\ pLock' = <<>>
    /\ pWorker' = [pWorker EXCEPT ![j] = "done"]
    /\ UNCHANGED <<pFlushed, pLine, pFinalWrites, pRenderer, pCursor,
                   coreVars, aggVars, clientVars, mainVars>>

\* the periodic tick: the renderer takes the lock and starts a redraw pass
Tick ==
    /\ pRenderer = "idle"
    /\ LockFree
    /\ pLock' = Renderer
    /\ pRenderer' = "pass"
    /\ pCursor' = 1
    /\ UNCHANGED <<pWorker, pComplete, pFlushed, pLine, pFinalWrites,
                   coreVars, aggVars, clientVars, mainVars>>

\* the dispatcher signals that all jobs are complete
Signal ==
    /\ pRenderer = "idle"
    /\ \A j \in DOMAIN pWorker : pWorker[j] = "done"
    /\ pRenderer' = AfterSignal
    /\ UNCHANGED <<pWorker, pComplete, pFlushed, pLine, pFinalWrites, pLock,
                   pCursor, coreVars, aggVars, clientVars, mainVars>>

\* the final, unconditional pass starts
FinalPass ==
    /\ pRenderer = "signalled"
    /\ LockFree
    /\ pLock' = Renderer
    /\ pRenderer' = "final"
    /\ pCursor' = 1
    /\ UNCHANGED <<pWorker, pComplete, pFlushed, pLine, pFinalWrites,
                   coreVars, aggVars, clientVars, mainVars>>

\* a pass handles the next job: a line not yet Complete-and-flushed is
\* cleared and written with the job's current state, the final glyph when
\* the job is complete (which flushes it), the spinner otherwise
DrawLine ==
    /\ pRenderer \in {"pass", "final"}
    /\ pCursor \in DOMAIN pLine
    /\ LET j == pCursor
       IN  IF pFlushed[j]
           THEN UNCHANGED <<pLine, pFlushed, pFinalWrites>>
           ELSE IF pComplete[j]
           THEN /\ pLine' = [pLine EXCEPT ![j] = "final"]
                /\ pFlushed' = [pFlushed EXCEPT ![j] = TRUE]
                /\ pFinalWrites' = [pFinalWrites EXCEPT ![j] = @ + 1]
           ELSE /\ pLine' = [pLine EXCEPT ![j] = "spinner"]
                /\ UNCHANGED <<pFlushed, pFinalWrites>>
    /\ pCursor' = pCursor + 1
    /\ UNCHANGED <<pWorker, pComplete, pLock, pRenderer, coreVars, aggVars,
                   clientVars, mainVars>>

\* the pass is over: the lock is given back; after the final pass the
\* renderer stops ticking
EndPass ==
    /\ pRenderer \in {"pass", "final"}
    /\ pCursor \notin DOMAIN pLine
    /\ pLock' = <<>>
    /\ pRenderer' = IF pRenderer = "final" THEN "stopped" ELSE "idle"
    /\ UNCHANGED <<pWorker, pComplete, pFlushed, pLine, pFinalWrites,
                   pCursor, coreVars, aggVars, clientVars, mainVars>>

InitRender ==
    /\ Start(NoTarget, 0)
    /\ AggIdle
    /\ ClientIdle
    /\ MainIdle
    /\ \E n \in 1..MaxLines : RenderStart(n)

NextRender ==
    \/ \E j \in DOMAIN pWorker : WorkerLock(j)
    \/ \E j \in DOMAIN pWorker : WorkerComplete(j)
    \/ Tick
    \/ Signal
    \/ FinalPass
    \/ DrawLine
    \/ EndPass

\* the jobs of a target complete while the renderer redraws their lines
SpecRender == InitRender /\ [][NextRender]_vars

(***************************************************************************)
(* Properties                                                              *)
(***************************************************************************)
\* every EndpointResult that a checkEndpoint call has returned
AllResults == Elems(resultsChan) \cup Elems(results)

\* the workers that hold a slot of the gate: past the acquire, before the
\* release
Holding ==
    { w \in DOMAIN wpc : wpc[w] \in {"inflight", "reading", "sent", "panicked"} }

\* the workers whose result has been sent
Delivered == { w \in DOMAIN wpc : wpc[w] \in {"sent", "done"} }

\* the URL of a job of the configured target
JobURL(j) == constructURL(config.BaseURLs[j[1]], config.Endpoints[j[2]])

\* how many results carry the URL u
CountResults(u) == Cardinality({ k \in DOMAIN results : results[k].URL = u })

\* how many jobs have the URL u
CountJobs(u) == Cardinality({ j \in Jobs(config) : JobURL(j) = u })

\* C1: when processTarget returns, the list it returns has exactly B*E
\* elements, B and E being the lengths of the target's base URL and endpoint
\* lists, for every ceiling and every completion order.
C1_ResultCount ==
    tpc = "returned" =>
        Len(results) = Len(config.BaseURLs) * Len(config.Endpoints)

\* a 2 x 2 target has returned under a gate of capacity 1 and the first
\* result received is not that of the first job
C1_Witness ==
    /\ tpc = "returned"
    /\ Len(config.BaseURLs) = 2
    /\ Len(config.Endpoints) = 2
    /\ concurrency = 1
    /\ Len(results) = 4
    /\ results[1].URL # JobURL(<<1, 1>>)

\* C2: with a gate of capacity C > 0, at most C workers are past the acquire
\* and before the release, and the gate never holds more than C tokens.
C2_GateBound ==
    concurrency > 0 =>
        /\ Cardinality(Holding) <= concurrency
        /\ semLen <= concurrency

\* the gate of capacity 2 is full, two requests are in flight and a third
\* worker waits for admission
C2_Witness ==
    /\ concurrency = 2
    /\ Cardinality({ w \in DOMAIN wpc : wpc[w] = "inflight" }) = 2
    /\ \E w \in DOMAIN wpc : wpc[w] = "start"
    /\ semLen = 2

\* C3: every job contributes exactly one result: at any time the results
\* sent are as many as the workers that have sent, and the returned list
\* holds each URL as many times as there are jobs with that URL.
C3_ExactlyOnePerJob ==
    /\ Len(resultsChan) + Len(results) = Cardinality(Delivered)
    /\ tpc = "returned" =>
          \A u \in { JobURL(j) : j \in Jobs(config) }
                     \cup { r.URL : r \in Elems(results) } :
              CountResults(u) = CountJobs(u)

\* a returned list with a success, a non-accepted status and an error, two
\* of its results sharing one URL
C3_Witness ==
    /\ tpc = "returned"
    /\ \E i, j, k \in DOMAIN results :
          /\ results[i].Success
          /\ results[j].Error = NoError /\ ~results[j].Success
          /\ results[k].Error # NoError
    /\ \E i, j \in DOMAIN results : i # j /\ results[i].URL = results[j].URL

\* C4: isStatusAcceptable(s, codes, ranges) is true exactly when s is one of
\* the codes or lies between Min and Max of one of the ranges, both
\* inclusive; an inverted range accepts nothing.
C4_AcceptIff ==
    \A s \in StatusUniverse :
        isStatusAcceptable(s, target.StatusCodes, statusRanges)
        <=> \/ s \in Elems(target.StatusCodes)
            \/ \E k \in DOMAIN statusRanges :
                   statusRanges[k].Min <= s /\ s <= statusRanges[k].Max

\* a status that is not among the codes was accepted by a range, under a
\* policy that also holds an inverted range
C4_Witness ==
    /\ results # <<>>
    /\ results[1].Success
    /\ target.StatusCodes # <<>>
    /\ results[1].StatusCode \notin Elems(target.StatusCodes)
    /\ \E k \in DOMAIN statusRanges : statusRanges[k].Min > statusRanges[k].Max

\* C5: a target configured with no status codes and no status ranges gets,
\* once the default rule has run, a policy that accepts 200 and no other
\* status, and its results are successes exactly on status 200.
C5_DefaultPolicy ==
    (tpc # "parse" /\ config.StatusCodes = <<>> /\ config.StatusRanges = <<>>)
    => /\ \A s \in StatusUniverse :
              isStatusAcceptable(s, target.StatusCodes, statusRanges) <=> s = 200
       /\ \A r \in AllResults :
              r.Error = NoError => (r.Success <=> r.StatusCode = 200)

\* under the default policy a response with status 404 was read and judged
\* not acceptable
C5_Witness ==
    /\ tpc = "returned"
    /\ config.StatusCodes = <<>>
    /\ config.StatusRanges = <<>>
    /\ results # <<>>
    /\ results[1].Error = NoError
    /\ results[1].StatusCode = 404
    /\ ~results[1].Success

\* the range strings among the first n configured ones that parse / do not
Visited == SubSeq(config.StatusRanges, 1, rangeIdx - 1)
Parses(x) == ~parseStatusRange(x).err
Malformed(x) == parseStatusRange(x).err

\* C6: the parsing loop visits every configured range string; the policy
\* holds the parsed value of each visited string that parses, in order, the
\* others are reported, and the loop ends only after the last string.
C6_MalformedRangeSkipped ==
    /\ LET good == SelectSeq(Visited, Parses)
       IN  statusRanges =
               [k \in 1..Len(good) |-> StatusRange(parseStatusRange(good[k]))]
    /\ warnings = SelectSeq(Visited, Malformed)
    /\ tpc # "parse" => rangeIdx = Len(config.StatusRanges) + 1
    /\ tpc = "parse" => ~crashed /\ rangeIdx <= Len(config.StatusRanges) + 1

\* a malformed range string between two well-formed ones was skipped and
\* both others were kept
C6_Witness ==
    /\ tpc # "parse"
    /\ Len(config.StatusRanges) = 3
    /\ Parses(config.StatusRanges[1])
    /\ Malformed(config.StatusRanges[2])
    /\ Parses(config.StatusRanges[3])
    /\ Len(statusRanges) = 2
    /\ Len(warnings) = 1

\* C7 as stated: in every result of checkEndpoint exactly one of error
\* present and status code present holds.
C7_ExactlyOneOfErrorAndStatus ==
    \A r \in AllResults : (r.Error # NoError) # (r.StatusCode # 0)

\* C7 amended: in every result of checkEndpoint an error or a status code is
\* present, and both are present exactly when reading the body failed.
C7_ErrorOrStatus ==
    \A r \in AllResults :
        /\ r.Error # NoError \/ r.StatusCode # 0
        /\ (r.Error # NoError /\ r.StatusCode # 0) <=> r.Error = ErrReadingBody

\* a result whose body could not be read carries its status code
C7_Witness ==
    \E r \in AllResults : r.Error = ErrReadingBody /\ r.StatusCode # 0

\* C8: a result with a transport error has Success = false and no status,
\* and without a gate no worker ever waits for a sibling: every worker that
\* has not sent its result can take its next step.
C8_TransportFailureIsolated ==
    /\ \A r \in AllResults :
          r.Error = ErrTransport => ~r.Success /\ r.StatusCode = 0
    /\ (concurrency = 0 /\ ~crashed) =>
          \A w \in DOMAIN wpc :
              /\ wpc[w] = "start" => ENABLED WorkerStart(w)
              /\ wpc[w] = "inflight" => ENABLED DoReturns(w)
              /\ wpc[w] = "reading" => ENABLED ReadBody(w)

\* without a gate, one request is still in flight while all the siblings,
\* one of them failed at transport level, have been collected
C8_Witness ==
    /\ concurrency = 0
    /\ resultsCount >= 3
    /\ Len(results) = resultsCount - 1
    /\ \E w \in DOMAIN wpc : wpc[w] = "inflight"
    /\ \E r \in Elems(results) : r.Error = ErrTransport /\ ~r.Success

\* C9 as stated: no job-level failure crashes the batch, whatever the base
\* URL and endpoint strings are.
C9_NoCrash == ~crashed

\* C10 as stated: under fair scheduling processTarget returns.
C10_Terminates == <>(tpc = "returned")

\* the workers whose job is between client.Do and the end of io.ReadAll
InNetworkCall == { w \in DOMAIN wpc : wpc[w] \in {"inflight", "reading"} }

\* C14: with concurrency 0 there is no gate: no slot is ever taken, no worker
\* ever waits for admission (a worker that has not started can start, however
\* many siblings are in flight), and no worker has a release left to do.
C14_NoGate ==
    concurrency = 0 =>
        /\ semLen = 0
        /\ \A w \in DOMAIN wpc :
              /\ wpc[w] # "sent"
              /\ (wpc[w] = "start" /\ ~crashed) => ENABLED WorkerStart(w)

\* without a gate, all B*E = MaxJobs requests of a target are in flight at
\* the same time
C14_Witness ==
    /\ concurrency = 0
    /\ resultsCount = MaxJobs
    /\ InNetworkCall = Jobs(target)
    /\ \A w \in DOMAIN wpc : wpc[w] = "inflight"

\* C18: with a gate, the slots taken are exactly one per worker that is past
\* its acquire and before its release, whatever the outcome of its job was:
\* a worker in its network call holds a slot, and a worker that is done has
\* given its slot back.
C18_SlotPerWorker ==
    SemInUse =>
        /\ semLen = Cardinality(Holding)
        /\ InNetworkCall \subseteq Holding
        /\ \A w \in DOMAIN wpc : wpc[w] \in {"start", "done"} => w \notin Holding

\* with one slot, a worker whose job failed has given the slot back and a
\* sibling is using it for its request, while another still waits
C18_Witness ==
    /\ concurrency = 1
    /\ semLen = 1
    /\ \E w \in DOMAIN wpc : wpc[w] = "done"
    /\ \E w \in DOMAIN wpc : wpc[w] = "inflight"
    /\ \E w \in DOMAIN wpc : wpc[w] = "start"
    /\ \E r \in AllResults : r.Error = ErrTransport

\* the jobs of the target whose URL http.NewRequest refuses
Unconstructible ==
    { j \in Jobs(target) :
        /\ ~constructURLPanics(target.BaseURLs[j[1]], target.Endpoints[j[2]])
        /\ NewRequestFails(JobURL(j)) }

\* C19: a job whose request cannot be constructed gets a result with the
\* error set, Duration 0, no status code, no body and Success = false, and
\* its worker is never in a network call.
C19_ConstructionFailure ==
    /\ \A r \in AllResults :
          /\ NewRequestFails(r.URL) => r.Error = ErrCreatingRequest
          /\ r.Error = ErrCreatingRequest =>
                /\ r.Duration = 0
                /\ r.StatusCode = 0
                /\ r.ResponseBody = ""
                /\ ~r.Success
    /\ \A w \in DOMAIN wpc : w \in Unconstructible => w \notin InNetworkCall

\* processTarget has returned a result of a request that could not be
\* constructed, next to one of a request that was answered
C19_Witness ==
    /\ tpc = "returned"
    /\ \E r \in Elems(results) : r.Error = ErrCreatingRequest
    /\ \E r \in Elems(results) : r.StatusCode # 0

\* C20: once a response has been received the result carries its status
\* code and the measured duration, also while the body is being read; a
\* result whose body could not be read carries the error with the status
\* code and the duration, Success = false and an empty body; a result
\* whose body was read carries the body.
C20_ResponseRecorded ==
    /\ \A w \in DOMAIN wpc :
          wpc[w] = "reading" =>
              /\ wlocal[w].StatusCode \in StatusSet
              /\ wlocal[w].Duration \in Durations
              /\ wlocal[w].Error = NoError
    /\ \A r \in AllResults :
          /\ r.StatusCode # 0 =>
                /\ r.StatusCode \in StatusSet
                /\ r.Duration \in Durations
          /\ r.Error = ErrReadingBody =>
                /\ r.StatusCode # 0
                /\ ~r.Success
                /\ r.ResponseBody = ""
          /\ (r.StatusCode # 0 /\ r.Error = NoError) => r.ResponseBody = "body"

\* processTarget has returned a result whose body could not be read, with
\* status 200 and a duration, next to a successful one
C20_Witness ==
    /\ tpc = "returned"
    /\ \E r \in Elems(results) :
          r.Error = ErrReadingBody /\ r.StatusCode = 200 /\ r.Duration > 0
    /\ \E r \in Elems(results) : r.Success

\* the results at the positions of a result set that satisfy a condition
Successes(rs) ==
    { k \in DOMAIN rs : rs[k].Error = NoError /\ rs[k].Success }

RECURSIVE SumDurations(_)
SumDurations(rs) ==
    IF rs = <<>> THEN 0 ELSE Head(rs).Duration + SumDurations(Tail(rs))

\* C12: both output functions report total = the number of results,
\* successful = the number of results with no error and Success = true,
\* failed = total - successful, and as average the sum of the durations
\* divided by total: the exact quotient in the JSON summary, the quotient
\* of the integer division of time.Duration in the table's summary row.
C12_Aggregation ==
    LET n == Len(aggResults)
        ok == Cardinality(Successes(aggResults))
        sum == SumDurations(aggResults)
    IN  /\ jsonSummary.Computed =>
              /\ jsonSummary.Total = n
              /\ jsonSummary.Successful = ok
              /\ jsonSummary.Failed = n - ok
              /\ n > 0 =>
                    /\ jsonSummary.AvgDuration.Den > 0
                    /\ jsonSummary.AvgDuration.Num * n
                           = sum * jsonSummary.AvgDuration.Den
        /\ tableSummary.Computed =>
              /\ tableSummary.Total = n
              /\ tableSummary.Successful = ok
              /\ tableSummary.Failed = n - ok
              /\ n > 0 =>
                    /\ tableSummary.Printed
                    /\ tableSummary.AvgDuration * n <= sum
                    /\ sum < (tableSummary.AvgDuration + 1) * n

\* both summaries computed for a set of MaxResults results with an error, a
\* success and a rejected status among them, whose durations differ
C12_Witness ==
    /\ jsonSummary.Computed
    /\ tableSummary.Computed
    /\ Len(aggResults) = MaxResults
    /\ jsonSummary.Successful = 1
    /\ \E k \in DOMAIN aggResults : aggResults[k].Error # NoError
    /\ \E k \in DOMAIN aggResults :
          aggResults[k].Error = NoError /\ ~aggResults[k].Success
    /\ \E k, l \in DOMAIN aggResults :
          aggResults[k].Duration # aggResults[l].Duration

\* C13: for an empty result set both output functions compute total 0,
\* successful 0, failed 0 and average 0, and neither divides by zero: the
\* JSON average is not the NaN of 0/0, the table's summary row (whose
\* integer division would panic) is not computed.
C13_EmptySet ==
    aggResults = <<>> =>
        /\ jsonSummary.Computed =>
              /\ jsonSummary.Total = 0
              /\ jsonSummary.Successful = 0
              /\ jsonSummary.Failed = 0
              /\ jsonSummary.AvgDuration.Den # 0
              /\ jsonSummary.AvgDuration.Num = 0
        /\ tableSummary.Computed =>
              /\ tableSummary.Total = 0
              /\ tableSummary.Successful = 0
              /\ tableSummary.Failed = 0
              /\ tableSummary.AvgDuration = 0
              /\ ~tableSummary.Panicked

\* both output functions have run on the empty result set
C13_Witness ==
    /\ aggResults = <<>>
    /\ jsonSummary.Computed
    /\ tableSummary.Computed

\* C17: the client's timeout is the --timeout flag when that is positive,
\* otherwise the configured global timeout when that is positive, otherwise
\* DefaultTimeout = 5 seconds; it is always positive.
C17_EffectiveTimeout ==
    client.Set =>
        /\ client.Timeout > 0
        /\ client.Timeout =
              IF flagTimeout > 0 THEN flagTimeout
              ELSE IF cfgTimeout > 0 THEN cfgTimeout
              ELSE DefaultTimeout

\* a client set up with no flag and a configured timeout of 0
C17_Witness ==
    /\ client.Set
    /\ flagTimeout = 0
    /\ cfgTimeout = 0
    /\ client.Timeout = DefaultTimeout

\* the URL of a job of one of the two targets
MJobURL(w) ==
    constructURL(mTargets[w[1]].BaseURLs[w[2]], mTargets[w[1]].Endpoints[w[3]])

\* the jobs of the target t whose URL can be constructed
MValidJobs(t) ==
    { w \in MJobs(t) :
        ~constructURLPanics(mTargets[t].BaseURLs[w[2]],
                            mTargets[t].Endpoints[w[3]]) }

\* every EndpointResult sent by a worker to the channel of the target t
MAllResults(t) == Elems(mResultsChan[t]) \cup Elems(mResults[t])

\* C11: when two targets are processed concurrently, also behind one shared
\* gate, every result that reaches a target's processTarget call is the
\* result of one of its own jobs, judged by its own status policy, and none
\* of the other target's; the set a call returns has exactly one result for
\* each of its own jobs.
C11_IndependentResults ==
    \A t \in TargetNames :
        /\ \A r \in MAllResults(t) :
              /\ \E w \in MValidJobs(t) : r.URL = MJobURL(w)
              /\ \A u \in TargetNames \ {t} :
                    \A w \in MValidJobs(u) : r.URL # MJobURL(w)
              /\ (r.Error = NoError) =>
                    (r.Success <=> isStatusAcceptable(r.StatusCode,
                                       mTargets[t].StatusCodes,
                                       mStatusRanges[t]))
        /\ mTpc[t] = "returned" =>
              /\ Len(mResults[t]) = Cardinality(MJobs(t))
              /\ \A w \in MJobs(t) :
                    Cardinality({ k \in DOMAIN mResults[t] :
                                    mResults[t][k].URL = MJobURL(w) })
                    = Cardinality({ v \in MJobs(t) : MJobURL(v) = MJobURL(w) })

\* behind one shared slot both calls have returned two results each; a
\* status 200 is a success for t1 and a failure for t2
C11_Witness ==
    /\ mConcurrency = 1
    /\ \A t \in TargetNames : mTpc[t] = "returned" /\ Len(mResults[t]) = 2
    /\ \E r \in Elems(mResults["t1"]) : r.StatusCode = 200 /\ r.Success
    /\ \E r \in Elems(mResults["t2"]) :
          r.StatusCode = 200 /\ r.Error = NoError /\ ~r.Success

\* the parties that are reading or writing the progress state or the terminal
InCritical ==
    { WorkerOf(j) : j \in { i \in DOMAIN pWorker : pWorker[i] = "writing" } }
    \cup (IF pRenderer \in {"pass", "final"} THEN {Renderer} ELSE {})

\* C15: every job's line is written in its final state at most once and,
\* once it shows the final state, shows it for ever; when the renderer has
\* stopped after its final pass every job is flushed, its line written in
\* final state exactly once; and after that no line is written any more.
C15_LineLifecycle ==
    /\ [](\A j \in DOMAIN pLine :
             /\ pFinalWrites[j] <= 1
             /\ pFlushed[j] <=> pLine[j] = "final"
             /\ pFlushed[j] => pComplete[j]
             /\ pRenderer = "stopped" => pFlushed[j] /\ pFinalWrites[j] = 1)
    /\ [][/\ \A j \in DOMAIN pLine : pLine[j] = "final" => pLine'[j] = "final"
          /\ pRenderer = "stopped" =>
                 UNCHANGED <<pLine, pFlushed, pFinalWrites, pRenderer>>]_vars

\* the renderer has stopped after its final pass over a block of MaxLines
\* jobs: every line shows the final state and was written so once
C15_Witness ==
    /\ pRenderer = "stopped"
    /\ DOMAIN pLine = 1..MaxLines
    /\ \A j \in DOMAIN pLine : pLine[j] = "final" /\ pFinalWrites[j] = 1

\* C16: a worker's write of its completion and a redraw pass of the renderer
\* never execute at the same time, nor do two workers' writes: at most one
\* party is in its critical section, and it is the holder of the lock.
C16_MutualExclusion ==
    /\ Cardinality(InCritical) <= 1
    /\ \A x \in InCritical : pLock = x
    /\ InCritical = {} => pLock = <<>>

\* a worker waits for the lock while a pass of the renderer has drawn one
\* line and has more to draw
C16_Witness ==
    /\ pRenderer = "pass"
    /\ pLock = Renderer
    /\ pCursor = 2
    /\ \E j \in DOMAIN pWorker : pWorker[j] = "running"
    /\ \E j \in DOMAIN pWorker : pComplete[j]

\* C22: for a target with no base URLs or no endpoints processTarget starts
\* no worker, receives nothing, can return at once and returns the empty
\* result set; nothing is reported and nothing crashes.
C22_ZeroJobs ==
    (tpc \in {"collect", "returned"} /\ ResultsCount(config) = 0) =>
        /\ DOMAIN wpc = {}
        /\ resultsChan = <<>>
        /\ results = <<>>
        /\ ~crashed
        /\ tpc = "collect" => ENABLED Return

\* processTarget has returned the empty set for a target that has a base URL
\* but no endpoint
C22_Witness ==
    /\ tpc = "returned"
    /\ config.BaseURLs # <<>>
    /\ config.Endpoints = <<>>
    /\ results = <<>>

\* C26: in every result of checkEndpoint, Success = true implies that there
\* is no error, that a status code is present and that isStatusAcceptable
\* holds for it under the target's codes and ranges; a result with an error
\* has Success = false.
C26_SuccessSound ==
    \A r \in AllResults :
        /\ r.Success =>
              /\ r.Error = NoError
              /\ r.StatusCode # 0
              /\ isStatusAcceptable(r.StatusCode, target.StatusCodes,
                                    statusRanges)
        /\ r.Error # NoError => ~r.Success

\* under a policy with codes and ranges, a status that the policy rejects
\* was read without error and is not a success
C26_Witness ==
    /\ tpc = "returned"
    /\ config.StatusCodes # <<>>
    /\ statusRanges # <<>>
    /\ results # <<>>
    /\ results[1].Error = NoError
    /\ results[1].StatusCode # 0
    /\ ~results[1].Success

\* C29: for the same result set printResults and printJSONResults compute
\* the same total, successful and failed counts, failed being the number of
\* results with an error or with Success = false, and no call of either
\* changes the result set.
C29_SameCounts ==
    /\ []((jsonSummary.Computed /\ tableSummary.Computed) =>
             /\ tableSummary.Total = jsonSummary.Total
             /\ tableSummary.Successful = jsonSummary.Successful
             /\ tableSummary.Failed = jsonSummary.Failed
             /\ tableSummary.Failed =
                   Cardinality({ k \in DOMAIN aggResults :
                                   \/ aggResults[k].Error # NoError
                                   \/ ~aggResults[k].Success }))
    /\ [][aggResults' = aggResults]_vars

\* both functions have counted a set with two different errors and a
\* rejected status as three failures
C29_Witness ==
    /\ jsonSummary.Computed
    /\ tableSummary.Computed
    /\ tableSummary.Failed = 3
    /\ \E k \in DOMAIN aggResults : aggResults[k].Error = ErrReadingBody
    /\ \E k \in DOMAIN aggResults : aggResults[k].Error = ErrTransport
    /\ \E k \in DOMAIN aggResults :
          aggResults[k].Error = NoError /\ ~aggResults[k].Success

\* C30: the default rule looks at the parsed ranges.  A target without
\* status codes none of whose range strings parses gets the codes <<200>>
\* and accepts exactly 200; a target with a status code or with a range
\* string that parses keeps its configured codes, nothing added.
C30_DefaultOnParsed ==
    tpc # "parse" =>
        IF /\ config.StatusCodes = <<>>
           /\ \A k \in DOMAIN config.StatusRanges :
                 Malformed(config.StatusRanges[k])
        THEN /\ target.StatusCodes = <<200>>
             /\ statusRanges = <<>>
             /\ \A s \in StatusUniverse :
                   isStatusAcceptable(s, target.StatusCodes, statusRanges)
                   <=> s = 200
        ELSE /\ target.StatusCodes = config.StatusCodes
             /\ isStatusAcceptable(200, target.StatusCodes, statusRanges) =>
                   \/ 200 \in Elems(config.StatusCodes)
                   \/ \E k \in DOMAIN statusRanges :
                          statusRanges[k].Min <= 200 /\ 200 <= statusRanges[k].Max

\* a target without codes whose range strings are all malformed has accepted
\* a response with status 200
C30_Witness ==
    /\ tpc = "returned"
    /\ config.StatusCodes = <<>>
    /\ Len(config.StatusRanges) >= 2
    /\ \A k \in DOMAIN config.StatusRanges : Malformed(config.StatusRanges[k])
    /\ results # <<>>
    /\ results[1].StatusCode = 200
    /\ results[1].Success

RECURSIVE SumRequests(_)
\* the number of client.Do calls made for the jobs in ws
SumRequests(ws) ==
    IF ws = {} THEN 0
    ELSE LET w == CHOOSE x \in ws : TRUE
         IN  mRequests[w] + SumRequests(ws \ {w})

\* the workers of the target t that are running and have not sent a result
Unsent(t) ==
    { w \in MJobs(t) \cap DOMAIN mWpc :
        mWpc[w] \in {"start", "inflight", "reading", "panicked"} }

\* the workers of all targets whose request is in flight
MInNetworkCall ==
    { w \in DOMAIN mWpc : mWpc[w] \in {"inflight", "reading"} }

\* C21: client.Do is called at most once for every job, whatever its
\* outcome, never for a job that has not been admitted, so that the calls
\* made for a target are never more than its B*E jobs.
C21_NoRetry ==
    /\ \A w \in DOMAIN mRequests :
          /\ mRequests[w] <= 1
          /\ mWpc[w] = "start" => mRequests[w] = 0
          /\ mWpc[w] \in {"inflight", "reading"} => mRequests[w] = 1
    /\ \A t \in TargetNames :
          SumRequests(MJobs(t) \cap DOMAIN mRequests)
              <= Len(mTargets[t].BaseURLs) * Len(mTargets[t].Endpoints)

\* both jobs of t2 are finished, one by a transport error and one with a
\* status the policy rejects, after one request each
C21_Witness ==
    /\ mTpc["t2"] = "returned"
    /\ Len(mResults["t2"]) = 2
    /\ \E r \in Elems(mResults["t2"]) : r.Error = ErrTransport
    /\ \E r \in Elems(mResults["t2"]) :
          r.Error = NoError /\ r.StatusCode = 200 /\ ~r.Success
    /\ \A w \in MJobs("t2") : mRequests[w] = 1 /\ mWpc[w] = "done"

\* C24: with --concurrency C > 0 the one gate of main bounds the requests in
\* flight of all targets together: at most C workers, whatever their
\* target, are in a network call, and at most C slots are taken.
C24_SharedGate ==
    MSemInUse =>
        /\ mSemLen <= mConcurrency
        /\ Cardinality(MInNetworkCall) <= mConcurrency

\* with one slot, a request of t1 is in flight while t2, already collecting,
\* has a worker that waits for admission and none in a network call
C24_Witness ==
    /\ mConcurrency = 1
    /\ \E w \in MJobs("t1") \cap DOMAIN mWpc : mWpc[w] = "inflight"
    /\ mTpc["t2"] = "collect"
    /\ MJobs("t2") # {}
    /\ \A w \in MJobs("t2") : mWpc[w] = "start"

\* C25: as long as the process has not crashed, the results channel of a
\* target has room for the result of every worker that has not sent yet, so a
\* worker that is about to send can send and a worker that has sent can
\* release; when workers wait for admission some worker can be admitted or
\* holds a slot it will give back; a collecting target can receive or return
\* or still has a worker that will send; and when every worker is done the
\* gate holds no slot.
C25_SendNeverBlocks ==
    /\ \A t \in TargetNames :
          mTpc[t] # "start" =>
              Len(mResultsChan[t]) + Len(mResults[t]) + Cardinality(Unsent(t))
                  = Len(mTargets[t].BaseURLs) * Len(mTargets[t].Endpoints)
    /\ ~mCrashed =>
          /\ \A w \in DOMAIN mWpc :
                /\ mWpc[w] = "reading" => ENABLED MReadBody(w)
                /\ mWpc[w] = "sent" => ENABLED MRelease(w)
                /\ mWpc[w] = "start" =>
                      \/ ENABLED MWorkerStart(w)
                      \/ \E v \in DOMAIN mWpc :
                             mWpc[v] \in {"inflight", "reading", "sent"}
          /\ \A t \in TargetNames :
                mTpc[t] = "collect" =>
                    \/ ENABLED TargetCollect(t)
                    \/ ENABLED TargetReturn(t)
                    \/ Unsent(t) # {}
    /\ (/\ \A t \in TargetNames : mTpc[t] # "start"
        /\ \A w \in DOMAIN mWpc : mWpc[w] = "done") => mSemLen = 0

\* C25, the part about progress: under a fair scheduler a worker that holds a
\* slot of the gate while in its network call always reaches its release, so
\* that the gate holds zero slots again.
C25_HolderReleases ==
    (MSemInUse /\ MInNetworkCall # {}) ~> (mSemLen = 0)

\* behind one slot all four workers of the two targets have sent and
\* released while neither target has received anything: both channels are
\* full and the gate is empty
C25_Witness ==
    /\ mConcurrency = 1
    /\ mSemLen = 0
    /\ \A t \in TargetNames :
          /\ Len(mResultsChan[t]) = 2
          /\ mResults[t] = <<>>
          /\ \A w \in MJobs(t) : mWpc[w] = "done"

\* C27: in table mode nothing is printed while main waits, a table is
\* printed only when every target goroutine has stored its results, and the
\* tables printed are those of the keys of tableResults in ascending order.
C27_SortedTables ==
    ~mCollect =>
        /\ mMain = "waiting" => mPrinted = <<>>
        /\ mPrinted # <<>> => \A t \in TargetNames : mTpc[t] = "stored"
        /\ mMain = "done" =>
              /\ Elems(mPrinted) = DOMAIN mTableResults
              /\ \A i, j \in DOMAIN mPrinted :
                    i < j => StrLess(mPrinted[i], mPrinted[j])

\* two tables are printed, the first of them for the target that finished
\* last
C27_Witness ==
    /\ ~mCollect
    /\ mMain = "done"
    /\ Len(mPrinted) = 2
    /\ Len(mStoreOrder) = 2
    /\ mStoreOrder[1] = mPrinted[2]

\* the map that main puts out
OutputMap == IF mCollect THEN mJSONTargets ELSE mTableResults

\* the (config file, target name) pairs processed
ProcessedPairs ==
    { <<mSource[t].Filename, mSource[t].Name>> : t \in TargetNames }

\* C28 as stated: when main puts out, the output map has exactly one entry
\* for every processed (config file, target name) pair, and the entry of
\* every target holds the results of a goroutine of that pair.
C28_OneEntryPerPair ==
    mMain = "done" =>
        /\ Cardinality(DOMAIN OutputMap) = Cardinality(ProcessedPairs)
        /\ \A t \in TargetNames :
              /\ KeyOf(t) \in DOMAIN OutputMap
              /\ \E u \in TargetNames :
                    /\ mSource[u].Filename = mSource[t].Filename
                    /\ mSource[u].Name = mSource[t].Name
                    /\ IF mCollect
                       THEN OutputMap[KeyOf(t)].Results = mResults[u]
                       ELSE OutputMap[KeyOf(t)].results = mResults[u]
              /\ IF mCollect
                 THEN /\ OutputMap[KeyOf(t)].Target = mSource[t].Name
                      /\ OutputMap[KeyOf(t)].ConfigFile = mSource[t].Filename
                 ELSE /\ OutputMap[KeyOf(t)].targetName = mSource[t].Name
                      /\ OutputMap[KeyOf(t)].configName = mSource[t].Filename

====
